---------------------------- MODULE Spec2Model ----------------------------
(***************************************************************************)
(* Recipe Composer of the foodgram backend: RecipeSerializer validation    *)
(* (api/serializers.py) and the create / update write sequences, run by    *)
(* concurrent request handlers against a relational store in autocommit    *)
(* mode (foodgram/settings.py sets neither ATOMIC_REQUESTS nor any         *)
(* transaction.atomic block, so every ORM statement commits on its own).   *)
(***************************************************************************)
EXTENDS Integers, Sequences, FiniteSets, Bags, TLC

(*************************** bounds of the model ***************************)
NumTags == 1
NumIngredients == 2
NumRecipes == 1
NumReqs == 2
MaxTags == 2
MaxLines == 2
MaxAmount == 1
MaxCookingTime == 1
NumUsers == 2
NumCartRecipes == 2
MaxStoredAmount == 2
NumAuthorRecipes == 3
MaxLimitLen == 2

(**************************** program constants ****************************)
\* foodgram/consts.py is not part of src/; the data model states ">= 1".
MIN_AMOUNT == 1
MIN_COOKING_TIME == 1
\* models.PositiveSmallIntegerField: the column holds 0..32767.
PositiveSmallIntegerMax == 32767

(******************************** catalogs *********************************)
Tag == 1..NumTags
Ingredient == 1..NumIngredients
RecipeIds == 1..NumRecipes
Reqs == 1..NumReqs
Users == 1..NumUsers
Images == {"img"}

\* RecipeSerializer.Meta.fields that a client writes (name and text carry no
\* rule beyond "required" and are left out).
Fields == {"tags", "ingredients", "image", "cooking_time"}

SeqsUpTo(S, n) == UNION {[1..k -> S] : k \in 0..n}

RawLines == [ingredient : Ingredient, amount : 0..MaxAmount]

\* A request body: `has` is the set of fields present in the raw request; an
\* absent field carries the placeholder value of its type.  image "" is a
\* field that is present but empty.
Datas ==
    {d \in [has : SUBSET Fields,
            tags : SeqsUpTo(Tag, MaxTags),
            ingredients : SeqsUpTo(RawLines, MaxLines),
            image : Images \cup {""},
            cooking_time : 0..MaxCookingTime] :
        /\ "tags" \notin d.has => d.tags = <<>>
        /\ "ingredients" \notin d.has => d.ingredients = <<>>
        /\ "image" \notin d.has => d.image = ""
        /\ "cooking_time" \notin d.has => d.cooking_time = 0}

Methods == {"POST", "PUT", "PATCH"}

Range(s) == {s[i] : i \in DOMAIN s}
HasDuplicates(s) == Len(s) # Cardinality(Range(s))

(******************************* validation ********************************)
\* Field-level validation (rest_framework Serializer.to_internal_value): every
\* declared field is run, the errors of all of them are collected under the
\* field's name.  A field absent from the request is an error ("required")
\* unless the serializer is partial (PATCH), where it is skipped.
\* the fields without their MinValueValidator
field_invalid_without_minimum(d, f) ==
    CASE f = "tags" ->
            \E i \in DOMAIN d.tags : d.tags[i] \notin Tag
      [] f = "ingredients" ->
            \E i \in DOMAIN d.ingredients :
                d.ingredients[i].ingredient \notin Ingredient
      [] f = "image" -> FALSE
      [] f = "cooking_time" -> FALSE

field_invalid(d, f) ==
    CASE f = "tags" ->
            \E i \in DOMAIN d.tags : d.tags[i] \notin Tag
      [] f = "ingredients" ->
            \E i \in DOMAIN d.ingredients :
                \/ d.ingredients[i].ingredient \notin Ingredient
                \/ d.ingredients[i].amount < MIN_AMOUNT
      [] f = "image" -> FALSE
      [] f = "cooking_time" -> d.cooking_time < MIN_COOKING_TIME

field_errors(d, partial) ==
    {f \in Fields : IF f \in d.has THEN field_invalid(d, f) ELSE ~partial}

\* RecipeSerializer.validate: data.get(...) defaults (an absent field reads as
\* the empty list / None, which is the placeholder of Datas), then the checks
\* in the order of the source, each raising at once under the key the source
\* names.
ingredients_ids(d) ==
    [i \in DOMAIN d.ingredients |-> d.ingredients[i].ingredient]

\* validate() without the "ingredients must not be empty" check
validate_without_empty_check(d) ==
    IF d.tags = <<>> THEN {"tags"}
    ELSE IF HasDuplicates(d.tags) THEN {"tags"}
    ELSE IF HasDuplicates(ingredients_ids(d)) THEN {"tags"}
    ELSE IF d.image = "" THEN {"image"}
    ELSE {}

validate(d) ==
    IF d.tags = <<>> THEN {"tags"}
    ELSE IF HasDuplicates(d.tags) THEN {"tags"}
    ELSE IF d.ingredients = <<>> THEN {"recipe_ingredients"}
    ELSE IF HasDuplicates(ingredients_ids(d)) THEN {"tags"}
    ELSE IF d.image = "" THEN {"image"}
    ELSE {}

\* Serializer.run_validation: validate() runs only when no field failed.
run_validation(d, partial) ==
    IF field_errors(d, partial) # {} THEN field_errors(d, partial)
    ELSE validate(d)

is_partial(method) == method = "PATCH"

(********************************* state ***********************************)
VARIABLES
    recipes,             \* Recipe rows: RecipeIds -> row or NoRow
    recipe_tags,         \* Recipe.tags through table: RecipeIds -> set of Tag
    recipe_ingredients,  \* RecipeIngredient rows: RecipeIds -> bag of lines
    req,                 \* the request each handler is serving
    reader,              \* what the last GET of a recipe returned
    completed,           \* per recipe, how the last finished write ended
    call,                \* input of a stand-alone validation run
    result,              \* its outcome
    relations,           \* Favorite / ShoppingCart / Subscription rows
    rel,                 \* the ledger request each handler is serving
    catalog,             \* Ingredient rows: id -> name and measurement_unit
    collation,           \* how the database orders text columns
    report,              \* download_shopping_cart: the run and its content
    listing_call,        \* input of a stand-alone get_recipes run
    listing_result       \* its outcome

store == <<recipes, recipe_tags, recipe_ingredients>>
composer == <<req, reader, completed, call, result>>
ledger == <<relations, rel>>
aggregator == <<catalog, collation, report>>
listing == <<listing_call, listing_result>>
vars == <<recipes, recipe_tags, recipe_ingredients, req, reader, completed,
          call, result, relations, rel, catalog, collation, report,
          listing_call, listing_result>>

\* A place in the Recipe table.  `id_used` tells that the id sequence has
\* given the id out: a deleted recipe's id is not given out again.
NoRow == [exists |-> FALSE, id_used |-> FALSE, author |-> 0, image |-> "",
          cooking_time |-> 0]
Row(author, image, cooking_time) ==
    [exists |-> TRUE, id_used |-> TRUE, author |-> author, image |-> image,
     cooking_time |-> cooking_time]
Deleted == [NoRow EXCEPT !.id_used = TRUE]

NoData == [has |-> {}, tags |-> <<>>, ingredients |-> <<>>, image |-> "",
           cooking_time |-> 0]

Idle == [pc |-> "idle", op |-> "none", user |-> 0, target |-> 0, data |-> NoData,
         instance |-> NoRow, errors |-> {}, deleted |-> EmptyBag,
         wrote |-> {}]

NoRead == [recipe |-> 0, lines |-> EmptyBag]
NoCall == [method |-> "none", data |-> NoData]
NotRun == [done |-> FALSE, errors |-> {}]

InFlight == {"row", "tags", "delete", "insert"}

\* The rows bulk_create builds from ingredients_data.
LinesOf(ingredients_data) ==
    LET Add(b, i) == b (+) SetToBag({ingredients_data[i]})
        F[k \in 0..Len(ingredients_data)] ==
            IF k = 0 THEN EmptyBag ELSE Add(F[k - 1], k)
    IN F[Len(ingredients_data)]

\* unique_recipe_ingredient: one row per (recipe, ingredient).
unique_recipe_ingredient(lines) ==
    \A i \in Ingredient :
        LET rows == {l \in BagToSet(lines) : l.ingredient = i}
        IN  \/ rows = {}
            \/ \E l \in rows : rows = {l} /\ CopiesIn(l, lines) = 1

\* PositiveSmallIntegerField: the column rejects a value outside 0..32767.
amount_in_range(lines) ==
    \A l \in BagToSet(lines) :
        l.amount >= 0 /\ l.amount <= PositiveSmallIntegerMax

\* The ledger, the aggregator and the subscription listing before any call.
NoRelations == [k \in {"Favorite", "ShoppingCart", "Subscription"} |-> EmptyBag]
LIdle == [pc |-> "idle", op |-> "none", kind |-> "none", user |-> 0,
          target |-> 0, outcome |-> "none"]
InitLedger == relations = NoRelations /\ rel = [q \in Reqs |-> LIdle]

NoContent == [recipes_total |-> 0, ingredients_total |-> 0,
              products |-> <<>>, recipes |-> <<>>]
NoReport == [pc |-> "idle", user |-> 0, recipes |-> <<>>, ingredients |-> <<>>,
             content |-> NoContent]
PlainCatalog == [i \in Ingredient |-> [name |-> <<97>>, measurement_unit |-> "g"]]
InitAggregator ==
    catalog = PlainCatalog /\ collation = "C" /\ report = NoReport

NoListing == [sent |-> FALSE, recipes_limit |-> <<>>, recipes |-> <<>>]
NotListed == [done |-> FALSE, status |-> "none", recipes |-> <<>>]
InitListing == listing_call = NoListing /\ listing_result = NotListed

Init ==
    /\ recipes = [r \in RecipeIds |-> NoRow]
    /\ recipe_tags = [r \in RecipeIds |-> {}]
    /\ recipe_ingredients = [r \in RecipeIds |-> EmptyBag]
    /\ req = [q \in Reqs |-> Idle]
    /\ reader = NoRead
    /\ completed = [r \in RecipeIds |-> "none"]
    /\ call = NoCall
    /\ result = NotRun
    /\ InitLedger /\ InitAggregator /\ InitListing

(************************* the request handlers ****************************)
\* The bodies the concurrent store model submits: every field present, image
\* and cooking_time valid, tags and ingredients over their whole range.  The
\* stand-alone validation runs (SpecValidate) cover all of Datas.
MainDatas ==
    {d \in Datas : d.has = Fields /\ d.image \in Images}

\* What is_valid() makes of each of these bodies: the errors, and the
\* validated data when there are none.
Verdict(d, partial) ==
    [errors |-> run_validation(d, partial),
     data |-> IF run_validation(d, partial) = {} THEN d ELSE NoData]
Verdicts == [partial \in BOOLEAN |-> {Verdict(d, partial) : d \in MainDatas}]

\* The ids the sequence of the Recipe table has not given out.
FreeIds == {r \in RecipeIds : ~recipes[r].id_used}
NextId == CHOOSE r \in FreeIds : \A o \in FreeIds : r <= o

\* IsAuthorOrReadOnly
SAFE_METHODS == {"GET", "HEAD", "OPTIONS"}
\* a permission class that lets every authenticated user through
has_object_permission_of_any_user(method, author, user) == TRUE

has_object_permission(method, author, user) ==
    method \in SAFE_METHODS \/ author = user

Accepted(u, op, r, d) ==
    [Idle EXCEPT !.pc = "row", !.op = op, !.user = u, !.target = r,
                 !.data = d,
                 !.instance = IF r = 0 THEN NoRow ELSE recipes[r]]
Rejected(u, op, r, errs) ==
    [Idle EXCEPT !.pc = "rejected", !.op = op, !.user = u, !.target = r,
                 !.errors = errs]
Forbidden(u, op, r) ==
    [Idle EXCEPT !.pc = "forbidden", !.op = op, !.user = u, !.target = r]

\* Submit with the old lines of an update cleared before is_valid() runs
Submit_clearing_lines_first(q) ==
    /\ req[q].pc = "idle"
    /\ \E method \in Methods, u \in Users :
         \E r \in (IF method = "POST" THEN {0}
                   ELSE {x \in RecipeIds : recipes[x].exists}) :
            LET op == IF method = "POST" THEN "create" ELSE "update"
            IN  /\ method = "POST" => FreeIds # {}
                /\ IF r # 0 /\ ~has_object_permission(method, recipes[r].author, u)
                   THEN req' = [req EXCEPT ![q] = Forbidden(u, op, r)]
                   ELSE \E v \in Verdicts[is_partial(method)] :
                          req' = [req EXCEPT ![q] =
                                    IF v.errors # {}
                                    THEN Rejected(u, op, r, v.errors)
                                    ELSE Accepted(u, op, r, v.data)]
                /\ recipe_ingredients' =
                      IF r = 0 THEN recipe_ingredients
                      ELSE [recipe_ingredients EXCEPT ![r] = EmptyBag]
    /\ UNCHANGED <<recipes, recipe_tags, reader, completed, call, result,
                   ledger, aggregator, listing>>

\* CreateModelMixin.create / UpdateModelMixin.update up to serializer.save():
\* for an update get_object(), which answers 403 when IsAuthorOrReadOnly
\* refuses the user, then is_valid(raise_exception=True).  Nothing is
\* written here.
Submit(q) ==
    /\ req[q].pc = "idle"
    /\ \E method \in Methods, u \in Users :
         \E r \in (IF method = "POST" THEN {0}
                   ELSE {x \in RecipeIds : recipes[x].exists}) :
            LET op == IF method = "POST" THEN "create" ELSE "update"
            IN  /\ method = "POST" => FreeIds # {}
                /\ IF r # 0 /\ ~has_object_permission(method, recipes[r].author, u)
                   THEN req' = [req EXCEPT ![q] = Forbidden(u, op, r)]
                   ELSE \E v \in Verdicts[is_partial(method)] :
                          req' = [req EXCEPT ![q] =
                                    IF v.errors # {}
                                    THEN Rejected(u, op, r, v.errors)
                                    ELSE Accepted(u, op, r, v.data)]
    /\ UNCHANGED <<store, reader, completed, call, result,
                   ledger, aggregator, listing>>

\* DELETE /recipes/{r}/: get_object() with the same permission check, then
\* instance.delete(), which removes the row together with the rows that
\* reference it by a cascading foreign key (lines, tag associations,
\* favorites, cart entries) in one transaction.
destroy(q) ==
    /\ req[q].pc = "idle"
    /\ \E u \in Users, r \in {x \in RecipeIds : recipes[x].exists} :
         IF ~has_object_permission("DELETE", recipes[r].author, u)
         THEN /\ req' = [req EXCEPT ![q] = Forbidden(u, "delete", r)]
              /\ UNCHANGED <<store, relations>>
         ELSE /\ req' = [req EXCEPT ![q] =
                           [Idle EXCEPT !.pc = "ok", !.op = "delete",
                                        !.user = u, !.target = r,
                                        !.instance = recipes[r],
                                        !.wrote = {"delete_row"}]]
              /\ recipes' = [recipes EXCEPT ![r] = Deleted]
              /\ recipe_tags' = [recipe_tags EXCEPT ![r] = {}]
              /\ recipe_ingredients' =
                    [recipe_ingredients EXCEPT ![r] = EmptyBag]
              /\ relations' =
                    [k \in DOMAIN relations |->
                        IF k = "Subscription" THEN relations[k]
                        ELSE [p \in {x \in BagToSet(relations[k]) : x.target # r}
                                |-> CopiesIn(p, relations[k])]]
    /\ UNCHANGED <<reader, completed, call, result, rel, aggregator, listing>>

\* create: recipe = super().create(validated_data) -- INSERT of the row.
create_row(q) ==
    /\ req[q].pc = "row" /\ req[q].op = "create"
    /\ FreeIds # {}
    /\ recipes' = [recipes EXCEPT ![NextId] =
                      Row(req[q].user, req[q].data.image,
                          req[q].data.cooking_time)]
    /\ req' = [req EXCEPT ![q].pc = "tags", ![q].target = NextId,
                          ![q].wrote = @ \cup {"row"}]
    /\ UNCHANGED <<recipe_tags, recipe_ingredients, reader, completed, call, result,
                   ledger, aggregator, listing>>

\* update: instance = super().update(instance, validated_data) -- the
\* attributes present in validated_data are set on the instance read by
\* get_object() and the whole row is saved.  save() is an UPDATE of the
\* row and, when no row has that id any more, an INSERT of it.
update_row(q) ==
    /\ req[q].pc = "row" /\ req[q].op = "update"
    /\ recipes' = [recipes EXCEPT ![req[q].target] =
            Row(req[q].instance.author,
                IF "image" \in req[q].data.has
                    THEN req[q].data.image ELSE req[q].instance.image,
                IF "cooking_time" \in req[q].data.has
                    THEN req[q].data.cooking_time
                    ELSE req[q].instance.cooking_time)]
    /\ req' = [req EXCEPT ![q].pc = "tags", ![q].wrote = @ \cup {"row"}]
    /\ UNCHANGED <<recipe_tags, recipe_ingredients, reader, completed, call, result,
                   ledger, aggregator, listing>>

\* recipe.tags.set(tags_data): the manager replaces the associations inside
\* its own atomic block, so the store goes from the old set to the new one
\* in one step.  The associations reference the recipe row: when it has
\* been deleted meanwhile the foreign key refuses them and the request
\* ends in a server error.
tags_set(q) ==
    /\ req[q].pc = "tags"
    /\ IF recipes[req[q].target].exists
       THEN /\ recipe_tags' = [recipe_tags EXCEPT ![req[q].target] =
                                  Range(req[q].data.tags)]
            /\ req' = [req EXCEPT
                         ![q].pc = IF req[q].op = "create" THEN "insert"
                                   ELSE "delete",
                         ![q].wrote = @ \cup {"tags"}]
            /\ completed' = completed
       ELSE /\ recipe_tags' = recipe_tags
            /\ req' = [req EXCEPT ![q].pc = "failed"]
            /\ completed' = [completed EXCEPT ![req[q].target] = "failed"]
    /\ UNCHANGED <<recipes, recipe_ingredients, reader, call, result,
                   ledger, aggregator, listing>>

\* instance.recipe_ingredients.all().delete(): committed at once; `deleted`
\* remembers the rows it removed.
delete_lines(q) ==
    /\ req[q].pc = "delete"
    /\ recipe_ingredients' = [recipe_ingredients EXCEPT ![req[q].target] =
                                EmptyBag]
    /\ req' = [req EXCEPT ![q].pc = "insert",
                          ![q].deleted = recipe_ingredients[req[q].target],
                          ![q].wrote = @ \cup {"delete"}]
    /\ UNCHANGED <<recipes, recipe_tags, reader, completed, call, result,
                   ledger, aggregator, listing>>

\* _create_recipe_ingredients: one bulk_create of all the lines.  The
\* statement inserts every row or, when a row breaks the unique constraint,
\* the column's range or the foreign key to a recipe row deleted
\* meanwhile, none and the request ends in a server error.
_create_recipe_ingredients(q) ==
    /\ req[q].pc = "insert"
    /\ LET r == req[q].target
           after == recipe_ingredients[r] (+) LinesOf(req[q].data.ingredients)
       IN  IF /\ recipes[r].exists
              /\ unique_recipe_ingredient(after) /\ amount_in_range(after)
           THEN /\ recipe_ingredients' =
                        [recipe_ingredients EXCEPT ![r] = after]
                /\ req' = [req EXCEPT ![q].pc = "ok",
                                      ![q].wrote = @ \cup {"insert"}]
                /\ completed' = [completed EXCEPT ![r] = "ok"]
           ELSE /\ recipe_ingredients' = recipe_ingredients
                /\ req' = [req EXCEPT ![q].pc = "failed"]
                /\ completed' = [completed EXCEPT ![r] = "failed"]
    /\ UNCHANGED <<recipes, recipe_tags, reader, call, result,
                   ledger, aggregator, listing>>

\* A storage-layer fault: the statement the handler is about to run raises
\* (connection lost, statement timeout).  Nothing rolls back what the
\* handler's earlier statements committed.
Fault(q) ==
    /\ req[q].pc \in InFlight
    /\ req' = [req EXCEPT ![q].pc = "failed"]
    /\ completed' = IF req[q].target = 0 THEN completed
                    ELSE [completed EXCEPT ![req[q].target] = "failed"]
    /\ UNCHANGED <<store, reader, call, result,
                   ledger, aggregator, listing>>

\* The response leaves; the handler is free for the next request.
Respond(q) ==
    /\ req[q].pc \in {"ok", "rejected", "forbidden", "failed"}
    /\ req' = [req EXCEPT ![q] = Idle]
    /\ UNCHANGED <<store, reader, completed, call, result,
                   ledger, aggregator, listing>>

\* GET /recipes/{r}/: the "ingredients" of RecipeSerializer's representation,
\* one query over recipe_ingredients of the stored recipe.
Read(r) ==
    /\ recipes[r].exists
    /\ reader' = [recipe |-> r, lines |-> recipe_ingredients[r]]
    /\ UNCHANGED <<store, req, completed, call, result,
                   ledger, aggregator, listing>>

Next ==
    \/ \E q \in Reqs : Submit(q)
    \/ \E q \in Reqs : destroy(q)
    \/ \E q \in Reqs : create_row(q)
    \/ \E q \in Reqs : update_row(q)
    \/ \E q \in Reqs : tags_set(q)
    \/ \E q \in Reqs : delete_lines(q)
    \/ \E q \in Reqs : _create_recipe_ingredients(q)
    \/ \E q \in Reqs : Fault(q)
    \/ \E q \in Reqs : Respond(q)
    \/ \E r \in RecipeIds : Read(r)

Spec == Init /\ [][Next]_vars

(********************* stand-alone validation runs *************************)
Calls == [method : Methods, data : Datas]

InitValidate ==
    /\ recipes = [r \in RecipeIds |-> NoRow]
    /\ recipe_tags = [r \in RecipeIds |-> {}]
    /\ recipe_ingredients = [r \in RecipeIds |-> EmptyBag]
    /\ req = [q \in Reqs |-> Idle]
    /\ reader = NoRead
    /\ completed = [r \in RecipeIds |-> "none"]
    /\ call \in Calls
    /\ result = NotRun
    /\ InitLedger /\ InitAggregator /\ InitListing

\* serializer.is_valid() on the body of the call.
is_valid ==
    /\ ~result.done
    /\ result' = [done |-> TRUE,
                  errors |-> run_validation(call.data, is_partial(call.method))]
    /\ UNCHANGED <<store, req, reader, completed, call, ledger,
                   aggregator, listing>>

NextValidate == is_valid

SpecValidate == InitValidate /\ [][NextValidate]_vars

(**************************** Relation Ledger ******************************)
(* favorite / shopping_cart / subscribe of api/views.py.  A row of any of  *)
(* the three tables is [user, target]: target is the recipe of a Favorite  *)
(* or ShoppingCart row and subscribed_to of a Subscription row.  A table   *)
(* is a bag, so that a second copy of a row is a state of its own.         *)
Kinds == DOMAIN NoRelations
RecipeKinds == {"Favorite", "ShoppingCart"}

Pair(u, t) == [user |-> u, target |-> t]
Holds(kind, p) == BagIn(p, relations[kind])

\* What the path parameter of a ledger call can name: a stored recipe
\* (get_object_or_404) or a user (get_object).
Targets(kind) ==
    IF kind = "Subscription" THEN Users
    ELSE {r \in DOMAIN recipes : recipes[r].exists}

\* unique_favorite, unique_shopping_cart, unique_subscription
unique_relation(rows) == \A p \in BagToSet(rows) : CopiesIn(p, rows) = 1

\* prevent_self_subscription
prevent_self_subscription(rows) == \A p \in BagToSet(rows) : p.user # p.target

\* the tables without their UniqueConstraint
constraints_hold_without_unique(kind, rows) ==
    kind = "Subscription" => prevent_self_subscription(rows)

\* The constraints the table of `kind` checks on every INSERT.
constraints_hold(kind, rows) ==
    /\ unique_relation(rows)
    /\ kind = "Subscription" => prevent_self_subscription(rows)

Called(op, kind, u, t, pc) ==
    [pc |-> pc, op |-> op, kind |-> kind, user |-> u, target |-> t,
     outcome |-> "none"]
Done(q, outcome) == [rel[q] EXCEPT !.pc = "done", !.outcome = outcome]

ThePair(q) == Pair(rel[q].user, rel[q].target)

\* add without the `user == author` test of _create_subscription
add_without_self_test(q) ==
    /\ rel[q].pc = "idle"
    /\ \E kind \in Kinds, u \in Users :
         \E t \in Targets(kind) :
            rel' = [rel EXCEPT ![q] = Called("add", kind, u, t, "get")]
    /\ UNCHANGED <<store, composer, relations, aggregator, listing>>

\* POST .../favorite/, .../shopping_cart/, .../subscribe/ up to the first
\* statement on the ledger: the lookup of the target and, for a
\* subscription, the `user == author` test of _create_subscription.
add(q) ==
    /\ rel[q].pc = "idle"
    /\ \E kind \in Kinds, u \in Users :
         \E t \in Targets(kind) :
            rel' = [rel EXCEPT ![q] =
                      IF kind = "Subscription" /\ u = t
                      THEN [Called("add", kind, u, t, "done")
                                EXCEPT !.outcome = "self"]
                      ELSE Called("add", kind, u, t, "get")]
    /\ UNCHANGED <<store, composer, relations, aggregator, listing>>

\* a view that does not test `created`: a row found is answered 201
get_or_create_answering_201(q) ==
    /\ rel[q].pc = "get"
    /\ rel' = [rel EXCEPT ![q] =
                  IF Holds(rel[q].kind, ThePair(q)) THEN Done(q, "created")
                  ELSE [rel[q] EXCEPT !.pc = "create"]]
    /\ UNCHANGED <<store, composer, relations, aggregator, listing>>

\* get_or_create, first statement: self.get(**kwargs).  A row found is
\* returned with created = False and the view answers 400.
get_or_create(q) ==
    /\ rel[q].pc = "get"
    /\ rel' = [rel EXCEPT ![q] =
                  IF Holds(rel[q].kind, ThePair(q)) THEN Done(q, "duplicate")
                  ELSE [rel[q] EXCEPT !.pc = "create"]]
    /\ UNCHANGED <<store, composer, relations, aggregator, listing>>

\* get_or_create, second statement: self.create(**params) in its own atomic
\* block.  The INSERT commits unless a constraint of the table rejects it;
\* the IntegrityError is caught and the row is looked up again.
create(q) ==
    /\ rel[q].pc = "create"
    /\ LET k == rel[q].kind
           after == relations[k] (+) SetToBag({ThePair(q)})
       IN  IF constraints_hold(k, after)
           THEN /\ relations' = [relations EXCEPT ![k] = after]
                /\ rel' = [rel EXCEPT ![q] = Done(q, "created")]
           ELSE /\ relations' = relations
                /\ rel' = [rel EXCEPT ![q].pc = "reget"]
    /\ UNCHANGED <<store, composer, aggregator, listing>>

\* get_or_create, after the IntegrityError: self.get(**kwargs) again; when
\* the row is not there either the IntegrityError is raised to the caller.
get_after_IntegrityError(q) ==
    /\ rel[q].pc = "reget"
    /\ rel' = [rel EXCEPT ![q] =
                  IF Holds(rel[q].kind, ThePair(q)) THEN Done(q, "duplicate")
                  ELSE Done(q, "error")]
    /\ UNCHANGED <<store, composer, relations, aggregator, listing>>

\* DELETE .../favorite/, .../shopping_cart/, .../subscribe/ up to the first
\* statement on the ledger.
remove(q) ==
    /\ rel[q].pc = "idle"
    /\ \E kind \in Kinds, u \in Users :
         \E t \in Targets(kind) :
            rel' = [rel EXCEPT ![q] = Called("remove", kind, u, t, "exists")]
    /\ UNCHANGED <<store, composer, relations, aggregator, listing>>

\* a remove without the existence test
exists_not_tested(q) ==
    /\ rel[q].pc = "exists"
    /\ rel' = [rel EXCEPT ![q].pc = "delete"]
    /\ UNCHANGED <<store, composer, relations, aggregator, listing>>

\* `if not relation.exists()` (for a subscription `.first()` and
\* `if not subscription`): 400 when no row is found.
exists(q) ==
    /\ rel[q].pc = "exists"
    /\ rel' = [rel EXCEPT ![q] =
                  IF Holds(rel[q].kind, ThePair(q))
                  THEN [rel[q] EXCEPT !.pc = "delete"]
                  ELSE Done(q, "not_found")]
    /\ UNCHANGED <<store, composer, relations, aggregator, listing>>

\* relation.delete(): a DELETE of the rows of the pair that are there at
\* that moment, none included (subscription.delete() deletes the one row
\* `.first()` returned); the view answers 204 either way.
delete(q) ==
    /\ rel[q].pc = "delete"
    /\ LET k == rel[q].kind
       IN  relations' = [relations EXCEPT ![k] =
                IF k = "Subscription" /\ BagIn(ThePair(q), @)
                THEN @ (-) SetToBag({ThePair(q)})
                ELSE [p \in BagToSet(@) \ {ThePair(q)} |-> CopiesIn(p, @)]]
    /\ rel' = [rel EXCEPT ![q] = Done(q, "removed")]
    /\ UNCHANGED <<store, composer, aggregator, listing>>

\* The response leaves; the handler is free for the next request.
LedgerRespond(q) ==
    /\ rel[q].pc = "done"
    /\ rel' = [rel EXCEPT ![q] = LIdle]
    /\ UNCHANGED <<store, composer, relations, aggregator, listing>>

\* A stored recipe as a successful create leaves it.
StoredLines(ingredients) ==
    SetToBag({[ingredient |-> i, amount |-> MIN_AMOUNT] : i \in ingredients})

InitLedgerStore ==
    /\ recipes = [r \in RecipeIds |-> Row(1, "img", MIN_COOKING_TIME)]
    /\ recipe_tags = [r \in RecipeIds |-> {1}]
    /\ recipe_ingredients = [r \in RecipeIds |-> StoredLines({1})]
    /\ req = [q \in Reqs |-> Idle]
    /\ reader = NoRead
    /\ completed = [r \in RecipeIds |-> "ok"]
    /\ call = NoCall
    /\ result = NotRun
    /\ InitAggregator /\ InitListing

InitLedgerCalls == InitLedgerStore /\ InitLedger

NextLedger ==
    \/ \E q \in Reqs : add(q)
    \/ \E q \in Reqs : get_or_create(q)
    \/ \E q \in Reqs : create(q)
    \/ \E q \in Reqs : get_after_IntegrityError(q)
    \/ \E q \in Reqs : remove(q)
    \/ \E q \in Reqs : exists(q)
    \/ \E q \in Reqs : delete(q)
    \/ \E q \in Reqs : LedgerRespond(q)

SpecLedger == InitLedgerCalls /\ [][NextLedger]_vars

(* Every handler has received the same call at the same moment: add of a   *)
(* pair that is not in the ledger, or remove of a pair that is; the rest   *)
(* of the ledger is any set of rows the constraints allow.                 *)
Pairs(kind) ==
    {p \in [user : Users, target : Targets(kind)] :
        kind = "Subscription" => p.user # p.target}

InitRace ==
    /\ InitLedgerStore
    /\ \E op \in {"add", "remove"}, kind \in Kinds :
         \E p \in Pairs(kind) :
            /\ rel = [q \in Reqs |->
                        Called(op, kind, p.user, p.target,
                               IF op = "add" THEN "get" ELSE "exists")]
            /\ \E rows \in [Kinds -> SUBSET (Pairs("Favorite") \cup Pairs("Subscription"))] :
                 /\ \A k \in Kinds : rows[k] \subseteq Pairs(k)
                 /\ (p \in rows[kind]) <=> (op = "remove")
                 /\ relations = [k \in Kinds |-> SetToBag(rows[k])]

NextRace ==
    \/ \E q \in Reqs : get_or_create(q)
    \/ \E q \in Reqs : create(q)
    \/ \E q \in Reqs : get_after_IntegrityError(q)
    \/ \E q \in Reqs : exists(q)
    \/ \E q \in Reqs : delete(q)

SpecRace == InitRace /\ [][NextRace]_vars

(* Requests whose line amounts reach the end of the amount column: every   *)
(* handler is idle or has received one request, of a body with amounts at   *)
(* and around the minimum and the column's maximum, against an empty store  *)
(* or one stored recipe.                                                    *)
RangeAmounts ==
    {MIN_AMOUNT - 1, MIN_AMOUNT,
     PositiveSmallIntegerMax, PositiveSmallIntegerMax + 1}

RangeDatas ==
    [has : {Fields},
     tags : {<<t>> : t \in Tag},
     ingredients : SeqsUpTo([ingredient : Ingredient, amount : RangeAmounts],
                            MaxLines),
     image : Images,
     cooking_time : {MIN_COOKING_TIME}]

\* What Submit leaves in the handler for request `method` of user u on
\* recipe r (0 for a POST) with body d.
Received(method, u, r, d) ==
    LET op == IF method = "POST" THEN "create" ELSE "update"
        errors == run_validation(d, is_partial(method))
    IN  IF r # 0 /\ ~has_object_permission(method, recipes[r].author, u)
        THEN Forbidden(u, op, r)
        ELSE IF errors # {} THEN Rejected(u, op, r, errors)
        ELSE Accepted(u, op, r, d)

InitRange ==
    /\ \E stored \in BOOLEAN :
         /\ recipes = [r \in RecipeIds |->
                         IF stored THEN Row(1, "img", MIN_COOKING_TIME)
                         ELSE NoRow]
         /\ recipe_tags = [r \in RecipeIds |-> IF stored THEN {1} ELSE {}]
         /\ recipe_ingredients =
               [r \in RecipeIds |->
                   IF stored THEN StoredLines({1}) ELSE EmptyBag]
         /\ completed = [r \in RecipeIds |-> IF stored THEN "ok" ELSE "none"]
    /\ req \in [Reqs ->
                 {Idle} \cup
                 {Received(method, u, r, d) :
                     method \in Methods, u \in Users, d \in RangeDatas,
                     r \in {0} \cup {x \in RecipeIds : recipes[x].exists}}]
    /\ \A q \in Reqs :
          \/ req[q].pc = "idle"
          \/ req[q].op = "create" /\ req[q].target = 0 /\ FreeIds # {}
          \/ req[q].op = "update" /\ req[q].target # 0
    /\ reader = NoRead
    /\ call = NoCall
    /\ result = NotRun
    /\ InitLedger /\ InitAggregator /\ InitListing

NextRange ==
    \/ \E q \in Reqs : create_row(q)
    \/ \E q \in Reqs : update_row(q)
    \/ \E q \in Reqs : tags_set(q)
    \/ \E q \in Reqs : delete_lines(q)
    \/ \E q \in Reqs : _create_recipe_ingredients(q)

SpecRange == InitRange /\ [][NextRange]_vars

(******************************* Aggregator ********************************)
(* download_shopping_cart of api/views.py.  An ingredient name is the      *)
(* sequence of its code points, so that the order of names and their       *)
(* letter case are computed and not assumed.                               *)
CartRecipeIds == 1..NumCartRecipes
IngredientNames == {<<66>>, <<97>>}        \* "B", "a"
Units == {"g", "ml"}
Catalogs == [Ingredient -> [name : IngredientNames, measurement_unit : Units]]

\* The text orders a database can be created with: code point order (the C
\* collation) or an order that ignores letter case (a locale collation).
Collations == {"C", "locale"}

IsUpper(c) == c \in 65..90
IsLower(c) == c \in 97..122
Lower(name) ==
    [i \in DOMAIN name |-> IF IsUpper(name[i]) THEN name[i] + 32 ELSE name[i]]
\* str.capitalize(): first character upper case, the rest lower case
capitalize(name) ==
    [i \in DOMAIN name |->
        IF i = 1 THEN (IF IsLower(name[i]) THEN name[i] - 32 ELSE name[i])
        ELSE (IF IsUpper(name[i]) THEN name[i] + 32 ELSE name[i])]

\* a sorts strictly before b, code point by code point
Precedes(a, b) ==
    \E k \in 1..(Len(a) + 1) :
        /\ \A i \in 1..(k - 1) : i <= Len(b) /\ a[i] = b[i]
        /\ \/ k = Len(a) + 1 /\ Len(b) >= k
           \/ k <= Len(a) /\ k <= Len(b) /\ a[k] < b[k]

\* ORDER BY on a text column, as the collation of the database decides it
name_before(a, b) ==
    IF collation = "C" THEN Precedes(a, b) ELSE Precedes(Lower(a), Lower(b))

\* Recipe.objects.filter(in_shopping_carts__user=user): a join, one result
\* per ShoppingCart row, in Recipe.Meta.ordering ("-id").
CartCopies(u, r) == CopiesIn(Pair(u, r), relations["ShoppingCart"])

\* the join without its user filter: the recipes of every cart
InCart_of_any_user(u) ==
    {r \in DOMAIN recipes :
        recipes[r].exists /\ \E v \in Users : CartCopies(v, r) > 0}

InCart(u) == {r \in DOMAIN recipes : recipes[r].exists /\ CartCopies(u, r) > 0}

RECURSIVE Descending(_, _)
Descending(u, ids) ==
    IF ids = {} THEN <<>>
    ELSE LET top == CHOOSE r \in ids : \A o \in ids : o <= r
         IN  [i \in 1..CartCopies(u, top) |-> top] \o Descending(u, ids \ {top})

\* the rows of the recipes the first query returned, the cart not read again
CartLines_of_recipes_read(u) ==
    UNION {{<<r, l>> : l \in BagToSet(recipe_ingredients[r])} :
              r \in Range(report.recipes)}

\* RecipeIngredient.objects.filter(recipe__in=recipes): the rows of the
\* recipes the subquery selects, each row once.
CartLines(u) ==
    UNION {{<<r, l>> : l \in BagToSet(recipe_ingredients[r])} : r \in InCart(u)}

\* rows grouped by the catalog row they reference
values_of_ingredient_id(row) ==
    [name |-> catalog[row[2].ingredient].name,
     measurement_unit |-> catalog[row[2].ingredient].measurement_unit,
     id |-> row[2].ingredient]

\* .values('ingredient__name', 'ingredient__measurement_unit'): the columns
\* the rows are grouped by.
values(row) ==
    [name |-> catalog[row[2].ingredient].name,
     measurement_unit |-> catalog[row[2].ingredient].measurement_unit]

\* Sum('amount') over the rows of one group
RECURSIVE Sum(_)
Sum(rows) ==
    IF rows = {} THEN 0
    ELSE LET row == CHOOSE x \in rows : TRUE
         IN  row[2].amount * CopiesIn(row[2], recipe_ingredients[row[1]])
                + Sum(rows \ {row})

\* .annotate(total_amount=Sum('amount')): one result per group
annotate(rows) ==
    {[name |-> g.name, measurement_unit |-> g.measurement_unit,
      total_amount |-> Sum({row \in rows : values(row) = g})] :
        g \in {values(row) : row \in rows}}

\* .order_by('ingredient__name'): every arrangement of the groups in which
\* no group stands after one whose name the database sorts later.
order_by_name(groups) ==
    {s \in [1..Cardinality(groups) -> groups] :
        /\ \A i, j \in DOMAIN s : i # j => s[i] # s[j]
        /\ \A i, j \in DOMAIN s : i < j => ~name_before(s[j].name, s[i].name)}

\* report_content with the product lines numbered by enumerate's default
report_content_enumerate_from_0(recipe_list, ingredients) ==
    [recipes_total |-> Len(recipe_list),
     ingredients_total |-> Len(ingredients),
     products |-> [i \in DOMAIN ingredients |->
                     [idx |-> i - 1,
                      name |-> capitalize(ingredients[i].name),
                      total_amount |-> ingredients[i].total_amount,
                      measurement_unit |-> ingredients[i].measurement_unit]],
     recipes |-> recipe_list]

\* report_content: the two counts, the numbered product lines
\* (enumerate(ingredients, start=1)) and the recipes.
report_content(recipe_list, ingredients) ==
    [recipes_total |-> Len(recipe_list),
     ingredients_total |-> Len(ingredients),
     products |-> [i \in DOMAIN ingredients |->
                     [idx |-> i,
                      name |-> capitalize(ingredients[i].name),
                      total_amount |-> ingredients[i].total_amount,
                      measurement_unit |-> ingredients[i].measurement_unit]],
     recipes |-> recipe_list]

\* GET /recipes/download_shopping_cart/ by user u: the two querysets are
\* built, nothing is read yet.
download_shopping_cart(u) ==
    /\ report.pc = "idle"
    /\ report' = [NoReport EXCEPT !.pc = "recipes", !.user = u]
    /\ UNCHANGED <<store, composer, ledger, catalog, collation, listing>>

\* len(recipes): the first query runs.
len_recipes ==
    /\ report.pc = "recipes"
    /\ report' = [report EXCEPT
                    !.pc = "ingredients",
                    !.recipes = Descending(report.user, InCart(report.user))]
    /\ UNCHANGED <<store, composer, ledger, catalog, collation, listing>>

\* len(ingredients): the second query runs, with the cart read again by
\* its subquery; then the content is put together and the file is sent.
len_ingredients ==
    /\ report.pc = "ingredients"
    /\ \E ingredients \in order_by_name(annotate(CartLines(report.user))) :
         report' = [report EXCEPT
                      !.pc = "done",
                      !.ingredients = ingredients,
                      !.content = report_content(report.recipes, ingredients)]
    /\ UNCHANGED <<store, composer, ledger, catalog, collation, listing>>

\* The file has left; the next download can start.
ReportRespond ==
    /\ report.pc = "done"
    /\ report' = NoReport
    /\ UNCHANGED <<store, composer, ledger, catalog, collation, listing>>

\* The stores a report is asked of: recipes as successful creates left
\* them, any catalog, any cart rows the constraint allows.
StoredLineSets ==
    UNION {[S -> MIN_AMOUNT..MaxStoredAmount] : S \in SUBSET Ingredient \ {{}}}
LinesOfStored(f) ==
    SetToBag({[ingredient |-> i, amount |-> f[i]] : i \in DOMAIN f})

InitReport ==
    /\ recipes = [r \in CartRecipeIds |-> Row(1, "img", MIN_COOKING_TIME)]
    /\ recipe_tags = [r \in CartRecipeIds |-> {1}]
    /\ \E f \in [CartRecipeIds -> StoredLineSets] :
         recipe_ingredients = [r \in CartRecipeIds |-> LinesOfStored(f[r])]
    /\ req = [q \in Reqs |-> Idle]
    /\ reader = NoRead
    /\ completed = [r \in CartRecipeIds |-> "ok"]
    /\ call = NoCall
    /\ result = NotRun
    /\ \E cart \in SUBSET [user : Users, target : CartRecipeIds] :
         relations = [NoRelations EXCEPT !["ShoppingCart"] = SetToBag(cart)]
    /\ rel = [q \in Reqs |-> LIdle]
    /\ catalog \in Catalogs
    /\ collation \in Collations
    /\ report = NoReport
    /\ InitListing

NextReport ==
    \/ \E u \in Users : download_shopping_cart(u)
    \/ len_recipes
    \/ len_ingredients
    \/ ReportRespond

SpecReport == InitReport /\ [][NextReport]_vars

\* a catalog whose rows all differ in name: "a", "b", ...
NamedCatalog ==
    [i \in Ingredient |-> [name |-> <<96 + i>>, measurement_unit |-> "g"]]

(* Downloads from a store in which every user has any cart, favorite and   *)
(* subscription rows the constraints allow.                                *)
InitReportAmongOthers ==
    /\ recipes = [r \in CartRecipeIds |-> Row(1, "img", MIN_COOKING_TIME)]
    /\ recipe_tags = [r \in CartRecipeIds |-> {1}]
    /\ \E f \in [CartRecipeIds -> SUBSET Ingredient \ {{}}] :
         recipe_ingredients = [r \in CartRecipeIds |-> StoredLines(f[r])]
    /\ req = [q \in Reqs |-> Idle]
    /\ reader = NoRead
    /\ completed = [r \in CartRecipeIds |-> "ok"]
    /\ call = NoCall
    /\ result = NotRun
    /\ \E rows \in [Kinds -> SUBSET (Pairs("Favorite") \cup Pairs("Subscription"))] :
         /\ \A k \in Kinds : rows[k] \subseteq Pairs(k)
         /\ relations = [k \in Kinds |-> SetToBag(rows[k])]
    /\ rel = [q \in Reqs |-> LIdle]
    /\ catalog \in {PlainCatalog, NamedCatalog}
    /\ collation \in Collations
    /\ report = NoReport
    /\ InitListing

SpecReportAmongOthers == InitReportAmongOthers /\ [][NextReport]_vars

(* A download that runs while other requests of the cart are in progress:  *)
(* every handler is idle or has received an add or a remove of a cart pair  *)
(* and runs its statements between the statements of the download.         *)
CartCalls ==
    {LIdle} \cup
    {Called(op, "ShoppingCart", p.user, p.target,
            IF op = "add" THEN "get" ELSE "exists") :
        op \in {"add", "remove"}, p \in [user : Users, target : CartRecipeIds]}

InitReportRace ==
    /\ recipes = [r \in CartRecipeIds |-> Row(1, "img", MIN_COOKING_TIME)]
    /\ recipe_tags = [r \in CartRecipeIds |-> {1}]
    /\ \E f \in [CartRecipeIds -> SUBSET Ingredient \ {{}}] :
         recipe_ingredients = [r \in CartRecipeIds |-> StoredLines(f[r])]
    /\ req = [q \in Reqs |-> Idle]
    /\ reader = NoRead
    /\ completed = [r \in CartRecipeIds |-> "ok"]
    /\ call = NoCall
    /\ result = NotRun
    /\ \E cart \in SUBSET [user : Users, target : CartRecipeIds] :
         relations = [NoRelations EXCEPT !["ShoppingCart"] = SetToBag(cart)]
    /\ rel \in [Reqs -> CartCalls]
    /\ catalog \in {PlainCatalog, NamedCatalog}
    /\ collation = "C"
    /\ \E u \in Users : report = [NoReport EXCEPT !.pc = "recipes", !.user = u]
    /\ InitListing

NextReportRace ==
    \/ \E q \in Reqs : get_or_create(q)
    \/ \E q \in Reqs : create(q)
    \/ \E q \in Reqs : get_after_IntegrityError(q)
    \/ \E q \in Reqs : exists(q)
    \/ \E q \in Reqs : delete(q)
    \/ len_recipes
    \/ len_ingredients

SpecReportRace == InitReportRace /\ [][NextReportRace]_vars

(************************* subscription listing ****************************)
(* UserSubscriptionSerializer.get_recipes, run for each followee of        *)
(* GET /users/subscriptions/.  The query parameter recipes_limit is the    *)
(* text the client sent (a sequence of code points) or is not sent.        *)
LimitChars == {45, 48, 49, 50, 97}         \* "-", "0", "1", "2", "a"
Limits == SeqsUpTo(LimitChars, MaxLimitLen)

\* obj.recipes.all(): the followee's recipes in Recipe.Meta.ordering ("-id")
RECURSIVE RecipesOf(_)
RecipesOf(ids) ==
    IF ids = {} THEN <<>>
    ELSE LET top == CHOOSE r \in ids : \A o \in ids : o <= r
         IN  <<top>> \o RecipesOf(ids \ {top})

ListingCalls ==
    {c \in [sent : BOOLEAN, recipes_limit : Limits,
            recipes : {RecipesOf(ids) : ids \in SUBSET (1..NumAuthorRecipes)}] :
        ~c.sent => c.recipes_limit = <<>>}

\* int(text): an optional sign and at least one decimal digit, else ValueError
IsDigit(c) == c \in 48..57
Digits(text) == IF text # <<>> /\ text[1] = 45 THEN Tail(text) ELSE text
is_int(text) ==
    Digits(text) # <<>> /\ \A i \in DOMAIN Digits(text) : IsDigit(Digits(text)[i])
RECURSIVE DecimalValue(_)
DecimalValue(d) ==
    IF d = <<>> THEN 0
    ELSE 10 * DecimalValue(SubSeq(d, 1, Len(d) - 1)) + (d[Len(d)] - 48)
int(text) ==
    IF text[1] = 45 THEN 0 - DecimalValue(Digits(text))
    ELSE DecimalValue(Digits(text))

Listed(recipe_list) == [done |-> TRUE, status |-> "ok", recipes |-> recipe_list]
ServerError == [done |-> TRUE, status |-> "error", recipes |-> <<>>]

\* get_recipes: int(None) raises TypeError and int of a text that is no
\* number ValueError, both caught, and all recipes are returned.  A slice
\* recipes[:limit] with limit >= 0 is the first `limit` recipes.  With
\* limit < 0 the QuerySet refuses the slice ("Negative indexing is not
\* supported"): by ValueError, which the except clause catches, or by
\* AssertionError, which it does not, depending on the installed Django.
get_recipes ==
    /\ ~listing_result.done
    /\ LET all == listing_call.recipes
           text == listing_call.recipes_limit
       IN  IF ~listing_call.sent \/ ~is_int(text)
           THEN listing_result' = Listed(all)
           ELSE IF int(text) >= 0
           THEN listing_result' =
                    Listed(SubSeq(all, 1,
                                  IF int(text) < Len(all) THEN int(text)
                                  ELSE Len(all)))
           ELSE \/ listing_result' = Listed(all)
                \/ listing_result' = ServerError
    /\ UNCHANGED <<store, composer, ledger, aggregator, listing_call>>

InitListingRun ==
    /\ recipes = [r \in RecipeIds |-> NoRow]
    /\ recipe_tags = [r \in RecipeIds |-> {}]
    /\ recipe_ingredients = [r \in RecipeIds |-> EmptyBag]
    /\ req = [q \in Reqs |-> Idle]
    /\ reader = NoRead
    /\ completed = [r \in RecipeIds |-> "none"]
    /\ call = NoCall
    /\ result = NotRun
    /\ InitLedger /\ InitAggregator
    /\ listing_call \in ListingCalls
    /\ listing_result = NotListed

NextListing == get_recipes

SpecListing == InitListingRun /\ [][NextListing]_vars

(******************************* the claims ********************************)
IsUpdate(q) == req[q].op = "update"
Busy(r) == \E q \in Reqs : req[q].pc \in InFlight /\ req[q].target = r

\* C1: a reader that reads recipe r while an update of r stands between its
\* delete and its re-insert never sees zero lines where the update found
\* some: it sees the old set or the new one.
C1_ReaderSeesOldOrNew ==
    [][\A q \in Reqs :
          ( /\ reader' # reader
            /\ IsUpdate(q) /\ req[q].pc = "insert"
            /\ reader'.recipe = req[q].target
            /\ req[q].deleted # EmptyBag )
          => reader'.lines # EmptyBag]_vars

\* C2: every recipe row in the store has at least one tag and at least one
\* ingredient line, in every reachable state.
C2_VisibleRecipeComplete ==
    \A r \in RecipeIds :
        recipes[r].exists =>
            recipe_tags[r] # {} /\ recipe_ingredients[r] # EmptyBag

\* C3: a create or update that ended in a storage fault has left none of its
\* writes in the store (a failed create has left no recipe row).
C3_FailedOperationLeavesNoWrites ==
    \A q \in Reqs :
        req[q].pc = "failed" =>
            /\ req[q].wrote = {}
            /\ req[q].op = "create" /\ req[q].target # 0
                    => ~recipes[req[q].target].exists

NoIngredientTwice(lines) ==
    \A l \in BagToSet(lines) :
        /\ CopiesIn(l, lines) = 1
        /\ \A m \in BagToSet(lines) : m.ingredient = l.ingredient => m = l

C5_RejectionWritesNothing ==
    [][\A q \in Reqs :
          (req[q].pc = "idle" /\ req'[q].pc = "rejected") => store' = store]_vars

\* an update of a stored recipe with lines has been rejected
C5_Witness ==
    \E q \in Reqs :
        /\ req[q].pc = "rejected" /\ IsUpdate(q) /\ req[q].errors # {}
        /\ recipe_ingredients[req[q].target] # EmptyBag

(* The claims about validation alone are read off a finished stand-alone   *)
(* run: `call` is the request, `result.errors` the keys of the rejection.  *)
IsUpdateCall == call.method \in {"PUT", "PATCH"}
Sent(f) == f \in call.data.has

\* The keys under which a rejection speaks of the ingredients field: the
\* field's name and its source attribute.
IngredientsKeys == {"ingredients", "recipe_ingredients"}

TagListBad == Sent("tags") /\ (call.data.tags = <<>> \/ HasDuplicates(call.data.tags))
IngredientListBad ==
    /\ Sent("ingredients")
    /\ \/ call.data.ingredients = <<>>
       \/ HasDuplicates(ingredients_ids(call.data))
AmountBad ==
    \E i \in DOMAIN call.data.ingredients :
        call.data.ingredients[i].amount < MIN_AMOUNT
CookingTimeBad == Sent("cooking_time") /\ call.data.cooking_time < MIN_COOKING_TIME
ImageEmpty == Sent("image") /\ call.data.image = ""

\* C6: an update that omits the image field (its other fields sent and
\* valid) is not rejected for the image, and an update whose image field is
\* present but empty is rejected.
C6_UpdateMayOmitImage ==
    (result.done /\ IsUpdateCall) =>
        /\ ( /\ call.data.has = Fields \ {"image"}
              /\ ~TagListBad /\ ~IngredientListBad /\ ~AmountBad
              /\ ~CookingTimeBad )
                => "image" \notin result.errors
        /\ ImageEmpty => result.errors # {}

\* C7: an update, full or partial, that omits the ingredients field (and
\* sends the other fields) is rejected and the rejection names the
\* ingredients field.
C7_UpdateWithoutIngredientsNamesIngredients ==
    ( /\ result.done /\ IsUpdateCall
      /\ call.data.has = Fields \ {"ingredients"} ) =>
        result.errors \cap IngredientsKeys # {}

\* C8: a submission that is valid but for an ingredient list that is empty or
\* names one ingredient twice is rejected under the ingredients field and
\* under no other field.
C8_BadIngredientListNamesIngredients ==
    ( /\ result.done /\ call.data.has = Fields
      /\ IngredientListBad
      /\ ~TagListBad /\ ~AmountBad /\ ~CookingTimeBad /\ ~ImageEmpty ) =>
        result.errors # {} /\ result.errors \subseteq IngredientsKeys

\* C9: a submission (all fields sent) whose tag list is empty or holds one
\* tag twice is rejected and the rejection names the tags field, also when
\* the ingredient list is bad as well: the tag check comes first.
C9_BadTagListNamesTags ==
    (result.done /\ call.data.has = Fields /\ TagListBad) =>
        "tags" \in result.errors

\* C10: the rejection of a submission (all fields sent) names every field
\* whose check the payload violates: tags, ingredients (list or amount),
\* image, cooking_time.
C10_EveryViolatedFieldReported ==
    (result.done /\ call.data.has = Fields) =>
        /\ TagListBad => "tags" \in result.errors
        /\ IngredientListBad \/ AmountBad
                => result.errors \cap IngredientsKeys # {}
        /\ ImageEmpty => "image" \in result.errors
        /\ CookingTimeBad => "cooking_time" \in result.errors


(* The claims about the ledger are read off the handlers' records: op,     *)
(* kind, user and target are the call, outcome is the answer of the view.  *)
Finished(q, op) == rel[q].pc = "done" /\ rel[q].op = op
SameCall(a, b) ==
    /\ rel[a].op = rel[b].op /\ rel[a].kind = rel[b].kind
    /\ rel[a].user = rel[b].user /\ rel[a].target = rel[b].target

\* C14: no (user, recipe) pair has two Favorite rows or two ShoppingCart
\* rows, and when every concurrent add of one such pair has finished,
\* exactly one of them was answered "created" and each other one
\* "duplicate".
C14_OneRowOneWinner ==
    /\ \A k \in RecipeKinds : unique_relation(relations[k])
    /\ ( \A q \in Reqs : Finished(q, "add") /\ rel[q].kind \in RecipeKinds )
          => \E w \in Reqs :
                /\ rel[w].outcome = "created"
                /\ \A q \in Reqs \ {w} : rel[q].outcome = "duplicate"

\* the adds of one (user, recipe) pair have all finished, one of them after
\* its INSERT was refused
C14_Witness ==
    /\ \A q \in Reqs : Finished(q, "add") /\ rel[q].kind \in RecipeKinds
    /\ \E q \in Reqs : rel[q].outcome = "duplicate"
    /\ \A q \in Reqs : Holds(rel[q].kind, ThePair(q))

Others(k, p) ==
    \A k2 \in Kinds : \A p2 \in BagToSet(relations[k2]) \cup BagToSet(relations'[k2]) :
        (k2 # k \/ p2 # p) =>
            CopiesIn(p2, relations'[k2]) = CopiesIn(p2, relations[k2])

\* C15: a statement of add that finds the pair in the ledger leaves the
\* ledger as it is and the call ends "duplicate", never "created"; the
\* INSERT of add on a pair that is not in the ledger adds one row of that
\* pair and changes no other pair, and the call ends "created".
C15_AddContract ==
    [][\A q \in Reqs :
          (rel[q].op = "add" /\ rel'[q] # rel[q] /\ rel[q].pc # "done") =>
            LET k == rel[q].kind
                p == ThePair(q)
            IN  /\ Holds(k, p) =>
                      /\ relations' = relations
                      /\ rel'[q].outcome \in {"none", "duplicate"}
                      /\ rel[q].pc \in {"get", "reget"}
                            => rel'[q].outcome = "duplicate"
                /\ rel'[q].outcome = "duplicate" => Holds(k, p)
                /\ (~Holds(k, p) /\ rel[q].pc = "get") =>
                      relations' = relations /\ rel'[q].pc = "create"
                /\ (~Holds(k, p) /\ rel[q].pc = "create") =>
                      /\ rel'[q].outcome = "created"
                      /\ CopiesIn(p, relations'[k]) = 1
                      /\ Others(k, p)
                /\ rel'[q].outcome = "created" =>
                      ~Holds(k, p) /\ rel[q].pc = "create"]_vars

\* one add of a pair was answered "created" and a later one "duplicate"
C15_Witness ==
    \E a, b \in Reqs :
        /\ a # b /\ SameCall(a, b)
        /\ Finished(a, "add") /\ rel[a].outcome = "created"
        /\ Finished(b, "add") /\ rel[b].outcome = "duplicate"
        /\ CopiesIn(ThePair(a), relations[rel[a].kind]) = 1

C21_OneRemoveSucceeds ==
    ( \A q \in Reqs : Finished(q, "remove") )
        => \E w \in Reqs :
              /\ rel[w].outcome = "removed"
              /\ \A q \in Reqs \ {w} : rel[q].outcome = "not_found"

SelfCall(q) ==
    rel[q].op = "add" /\ rel[q].kind = "Subscription"
        /\ rel[q].user = rel[q].target

\* C17: a subscribe call of a user to themselves is answered "self" by the
\* step that receives it, so it is never at a statement of get_or_create,
\* and no Subscription row has user = subscribed_to.
C17_NoSelfSubscription ==
    /\ prevent_self_subscription(relations["Subscription"])
    /\ \A q \in Reqs :
          SelfCall(q) => rel[q].pc = "done" /\ rel[q].outcome = "self"

\* a self-subscription was refused while the ledger holds subscriptions
C17_Witness ==
    \E q \in Reqs :
        /\ SelfCall(q) /\ rel[q].outcome = "self"
        /\ relations["Subscription"] # EmptyBag


(* The claims about the report are read off a finished download: `report`  *)
(* holds the user, the two query results and the content built from them.  *)
ReportDone == report.pc = "done"

\* the amount recipe r asks of catalog row i (0 when it has no such line)
AmountOf(r, i) ==
    LET ls == {l \in BagToSet(recipe_ingredients[r]) : l.ingredient = i}
    IN  IF ls = {} THEN 0 ELSE (CHOOSE l \in ls : TRUE).amount

RECURSIVE Total(_)
Total(f) ==
    IF DOMAIN f = {} THEN 0
    ELSE LET x == CHOOSE y \in DOMAIN f : TRUE
         IN  f[x] + Total([y \in DOMAIN f \ {x} |-> f[y]])

\* the catalog rows that carry name n and unit m
CatalogRows(n, m) ==
    {i \in Ingredient : catalog[i].name = n /\ catalog[i].measurement_unit = m}

\* the sum of the amounts the recipes of u's cart ask of name n, unit m
Needed(u, n, m) ==
    Total([x \in InCart(u) \X CatalogRows(n, m) |-> AmountOf(x[1], x[2])])

RowsOf(n, m) ==
    {i \in DOMAIN report.ingredients :
        /\ report.ingredients[i].name = n
        /\ report.ingredients[i].measurement_unit = m}

\* C11: a finished report has exactly one row for every (name, unit) some
\* line of the cart's recipes carries and no row for any other; the total
\* of the row is the sum of the amounts of all those lines, whichever
\* catalog rows and recipes they belong to.
C11_OneRowPerNameAndUnit ==
    ReportDone =>
        \A n \in IngredientNames, m \in Units :
            IF Needed(report.user, n, m) > 0
            THEN \E i \in RowsOf(n, m) :
                    /\ RowsOf(n, m) = {i}
                    /\ report.ingredients[i].total_amount
                            = Needed(report.user, n, m)
            ELSE RowsOf(n, m) = {}

\* two recipes of the cart name two catalog rows of one name and unit with
\* different amounts, and the report has the one merged row
C11_Witness ==
    /\ ReportDone
    /\ \E r1, r2 \in InCart(report.user), i1, i2 \in Ingredient :
         /\ r1 # r2 /\ i1 # i2
         /\ catalog[i1] = catalog[i2]
         /\ AmountOf(r1, i1) > 0 /\ AmountOf(r2, i2) > AmountOf(r1, i1)
         /\ AmountOf(r1, i2) = 0 /\ AmountOf(r2, i1) = 0
         /\ \E i \in DOMAIN report.ingredients :
              report.ingredients[i].total_amount
                    = AmountOf(r1, i1) + AmountOf(r2, i2)

\* C12: in a finished report no row stands after a row whose lower-cased
\* name is greater: the rows ascend by name compared without regard to
\* letter case.
C12_RowsAscendIgnoringCase ==
    ReportDone =>
        \A i, j \in DOMAIN report.ingredients :
            i < j => ~Precedes(Lower(report.ingredients[j].name),
                               Lower(report.ingredients[i].name))

\* C13: every download that was started can finish; the recipe count of a
\* finished report is the number of recipes in the user's cart, each listed
\* once; the ingredient count is the number of merged rows, which carry the
\* numbers 1, 2, ...; for an empty cart both counts are 0 and both lists
\* are empty.
C13_CountsAndNumbering ==
    /\ report.pc \in {"recipes", "ingredients"} => ENABLED NextReport
    /\ ReportDone =>
        LET c == report.content
            keys == {values(row) : row \in CartLines(report.user)}
        IN  /\ c.recipes_total = Cardinality(InCart(report.user))
            /\ Len(c.recipes) = c.recipes_total
            /\ Range(c.recipes) = InCart(report.user)
            /\ c.ingredients_total = Cardinality(keys)
            /\ Len(c.products) = c.ingredients_total
            /\ \A i \in DOMAIN c.products : c.products[i].idx = i
            /\ InCart(report.user) = {} =>
                  /\ c.recipes_total = 0 /\ c.ingredients_total = 0
                  /\ c.products = <<>> /\ c.recipes = <<>>

\* a finished report of a cart of two recipes with two merged rows
C13_Witness ==
    /\ ReportDone
    /\ Cardinality(InCart(report.user)) = 2
    /\ report.content.recipes_total = 2
    /\ Len(report.content.products) = 2

\* the recipes user u has in the cart, read off the ShoppingCart rows of u
OwnCart(u) ==
    {r \in DOMAIN recipes :
        recipes[r].exists /\ Pair(u, r) \in BagToSet(relations["ShoppingCart"])}

\* the sum of the amounts the recipes rs ask of name n, unit m
NeededBy(rs, n, m) ==
    Total([x \in rs \X CatalogRows(n, m) |-> AmountOf(x[1], x[2])])

\* rows is the merge of the lines of the recipes rs: one row, with the sum,
\* for every (name, unit) a line of rs carries, and no other row
MergeOf(rs, rows) ==
    /\ \A i \in DOMAIN rows :
          NeededBy(rs, rows[i].name, rows[i].measurement_unit) > 0
    /\ \A c \in Ingredient :
          LET n == catalog[c].name
              m == catalog[c].measurement_unit
              at == {i \in DOMAIN rows :
                        rows[i].name = n /\ rows[i].measurement_unit = m}
          IN  NeededBy(rs, n, m) > 0 =>
                \E i \in at :
                    at = {i} /\ rows[i].total_amount = NeededBy(rs, n, m)

\* C22: in a finished report the ingredient rows are exactly the merge of
\* the ingredient lines of the recipes listed in that same report, also
\* when cart entries of the user are added or removed during the download.
C22_RowsMergeListedRecipes ==
    ReportDone => MergeOf(Range(report.recipes), report.ingredients)

\* C22 as amended: the recipe list is the user's cart as the first read
\* finds it, and the ingredient rows are exactly the merge of the lines of
\* the recipes in the user's cart as the second read finds it; so the rows
\* are the merge of the lines of the recipes listed whenever the cart holds
\* the same recipes at both reads.
C22_EachReadSeesTheCartOfItsMoment ==
    [][/\ (report.pc = "recipes" /\ report'.pc = "ingredients") =>
             Range(report'.recipes) = OwnCart(report.user)
       /\ (report.pc = "ingredients" /\ report'.pc = "done") =>
             /\ report'.recipes = report.recipes
             /\ MergeOf(OwnCart(report.user), report'.ingredients)
             /\ Range(report.recipes) = OwnCart(report.user) =>
                   MergeOf(Range(report'.recipes), report'.ingredients)]_vars

\* a recipe was added to the user's cart between the two reads of a
\* finished report: its lines are in the rows and it is not in the list
C22_Witness ==
    /\ ReportDone
    /\ \E q \in Reqs :
          /\ Finished(q, "add") /\ rel[q].outcome = "created"
          /\ rel[q].user = report.user
          /\ rel[q].target \notin Range(report.recipes)
    /\ MergeOf(OwnCart(report.user), report.ingredients)
    /\ ~MergeOf(Range(report.recipes), report.ingredients)

\* C23: a finished report of user u is decided by the ShoppingCart rows of
\* u and the recipes and lines they reference alone: it lists exactly the
\* recipes of u's own rows, newest first and each once, and its rows are
\* the merge of their lines, whatever cart, favorite and subscription rows
\* the other users (and favorite and subscription rows u) have.
C23_ReportOfOwnCartOnly ==
    ReportDone =>
        LET own == OwnCart(report.user)
            c == report.content
        IN  /\ Range(c.recipes) = own
            /\ Len(c.recipes) = Cardinality(own)
            /\ \A i, j \in DOMAIN c.recipes : i < j => c.recipes[i] > c.recipes[j]
            /\ MergeOf(own, report.ingredients)
            /\ Len(c.products) = Len(report.ingredients)
            /\ \A i \in DOMAIN c.products :
                  /\ c.products[i].name = capitalize(report.ingredients[i].name)
                  /\ c.products[i].total_amount
                        = report.ingredients[i].total_amount
                  /\ c.products[i].measurement_unit
                        = report.ingredients[i].measurement_unit

\* a finished report of a user with a recipe in the cart, while another
\* user's cart holds a recipe that is not in it, one of whose lines is not
\* among the rows, and favorites and subscriptions are stored
C23_Witness ==
    /\ ReportDone
    /\ OwnCart(report.user) # {}
    /\ relations["Favorite"] # EmptyBag
    /\ relations["Subscription"] # EmptyBag
    /\ \E v \in Users \ {report.user} :
          \E r \in OwnCart(v) \ OwnCart(report.user) :
             \E l \in BagToSet(recipe_ingredients[r]) :
                \A i \in DOMAIN report.ingredients :
                    report.ingredients[i].name # catalog[l.ingredient].name

\* C18: a finished get_recipes has succeeded and returned no recipe when
\* the limit is a number that is 0 or negative, the first n at most when it
\* is a positive number n, and all the followee's recipes when the limit is
\* not a number or not sent.
C18_LimitDecidesRecipes ==
    listing_result.done =>
        LET all == listing_call.recipes
            text == listing_call.recipes_limit
            got == listing_result.recipes
        IN  /\ listing_result.status = "ok"
            /\ (~listing_call.sent \/ ~is_int(text)) => got = all
            /\ (listing_call.sent /\ is_int(text) /\ int(text) <= 0) =>
                    got = <<>>
            /\ (listing_call.sent /\ is_int(text) /\ int(text) > 0) =>
                    /\ Len(got) <= int(text)
                    /\ Len(got) <= Len(all)
                    /\ got = SubSeq(all, 1, Len(got))


\* C24: the line insert of a request that passed validation, on a recipe
\* row that exists and has no line of any ingredient of the payload,
\* succeeds and stores every line of the payload, whatever the amounts.
C24_AcceptedAmountsCanBeStored ==
    [][\A q \in Reqs :
          LET r == req[q].target
              lines == req[q].data.ingredients
          IN  ( /\ req[q].pc = "insert" /\ req'[q] # req[q]
                /\ recipes[r].exists
                /\ \A i \in DOMAIN lines :
                      \A l \in BagToSet(recipe_ingredients[r]) :
                          l.ingredient # lines[i].ingredient )
              => /\ req'[q].pc = "ok"
                 /\ recipe_ingredients'[r] =
                        recipe_ingredients[r] (+) SetToBag(Range(lines))]_vars

Mutates(op) == op \in {"update", "delete"}
Content(r) == <<recipes[r], recipe_tags[r], recipe_ingredients[r]>>

\* C19: the step that receives an update or a delete of recipe r from a
\* user who is not r's author refuses it and changes nothing in the store
\* or the ledger; and every step that changes the row, the tags or the
\* lines of a stored recipe belongs to a request of its author.
C19_OnlyAuthorMutates ==
    [][/\ \A q \in Reqs :
            ( /\ req[q].pc = "idle" /\ req'[q].pc # "idle"
              /\ Mutates(req'[q].op)
              /\ req'[q].user # recipes[req'[q].target].author )
            => /\ req'[q].pc = "forbidden"
               /\ store' = store /\ relations' = relations
       /\ \A r \in RecipeIds :
            (recipes[r].exists /\ Content(r)' # Content(r))
            => \E q \in Reqs :
                  /\ req'[q] # req[q]
                  /\ req'[q].target = r
                  /\ req'[q].user = recipes[r].author]_vars

\* an update and a delete of a stored recipe by a user who is not its
\* author have both been refused
C19_Witness ==
    \E a, b \in Reqs :
        /\ req[a].pc = "forbidden" /\ req[a].op = "update"
        /\ req[b].pc = "forbidden" /\ req[b].op = "delete"
        /\ req[a].target = req[b].target
        /\ recipes[req[a].target].exists
        /\ recipes[req[a].target].author # req[a].user
        /\ recipe_ingredients[req[a].target] # EmptyBag

AmountsAtLeastMinimum(d) ==
    \A i \in DOMAIN d.ingredients : d.ingredients[i].amount >= MIN_AMOUNT

AtLeastMinimum(d) ==
    d.cooking_time >= MIN_COOKING_TIME /\ AmountsAtLeastMinimum(d)

\* what Submit answers to every body it can receive that is below a minimum
BelowMinimumRejectedOnField ==
    \A partial \in BOOLEAN : \A d \in MainDatas :
        /\ d.cooking_time < MIN_COOKING_TIME
              => "cooking_time" \in Verdict(d, partial).errors
        /\ ~AmountsAtLeastMinimum(d)
              => "ingredients" \in Verdict(d, partial).errors

\* C20: a body with a line amount or a cooking_time below the minimum is
\* rejected with an error on that field ("ingredients", "cooking_time") and
\* none gets past validation, so every stored recipe has cooking_time >= the
\* minimum and every stored line amount >= the minimum.
C20_StoredValuesAtLeastMinimum ==
    /\ BelowMinimumRejectedOnField
    /\ \A q \in Reqs :
          (req[q].pc \in InFlight \cup {"ok"} /\ req[q].op # "delete")
            => AtLeastMinimum(req[q].data)
    /\ \A r \in RecipeIds :
          /\ recipes[r].exists => recipes[r].cooking_time >= MIN_COOKING_TIME
          /\ \A l \in BagToSet(recipe_ingredients[r]) : l.amount >= MIN_AMOUNT

\* a recipe is stored with its lines after one body was rejected for its
\* cooking_time and another for a line amount
C20_Witness ==
    \E a, b \in Reqs, r \in RecipeIds :
        /\ req[a].pc = "rejected" /\ "cooking_time" \in req[a].errors
        /\ req[b].pc = "rejected" /\ "ingredients" \in req[b].errors
        /\ recipes[r].exists /\ recipe_ingredients[r] # EmptyBag

\* The rejection of a stand-alone run names the field whose value is below
\* the minimum.
BelowMinimumNamesField ==
    result.done =>
        /\ AmountBad => "ingredients" \in result.errors
        /\ CookingTimeBad => "cooking_time" \in result.errors

=============================================================================
